---- MODULE Spec2Model ----
(***************************************************************************)
(* Model of the PR analysis pipeline of ai-code-reviewer:                  *)
(*   AnalysisService    (src/src/app/services/analysis.service.ts)         *)
(*   AzureOpenAIService (src/unnamed/part_001, lines 175-704)              *)
(*   GitHubService      (src/docs/api-keys.md, lines 574-841)              *)
(* A string is modelled as a sequence of tokens (a token is a run of       *)
(* characters that the regular expressions of the code never split).       *)
(* Every action is one synchronous block of the code: the body of a call,  *)
(* or everything an HTTP response triggers before the next request is      *)
(* awaited.                                                                *)
(***************************************************************************)
EXTENDS Integers, Sequences, FiniteSets, TLC

\* ------------------------------------------------------------------ bounds
\* number of invocations of analyzePullRequest in one behaviour
MaxRuns == 2

\* number of distinct readings of the wall clock
MaxTime == 2

\* length of the longest text ensureWithinLimit is evaluated on
MaxTextLen == 5

\* largest token budget ensureWithinLimit is evaluated with
MaxBudget == 1

\* number of files in the longest file list detectSchemaChanges is evaluated on
MaxFiles == 1

\* largest changed-line count calculateImpact is evaluated on
MaxChanges == 502

Runs == 1..MaxRuns

\* --------------------------------------------------------------- strings
\* JavaScript's undefined, for a string-valued field
Undef == "undefined"

Digits == {"42", "1"}

\* parseInt(match[3], 10)
ParseInt(tok) == IF tok = "42" THEN 42 ELSE IF tok = "1" THEN 1 ELSE 0

UrlValid    == <<"https://", "github.com", "/", "acme", "/", "widgets", "/", "pull", "/", "42">>
UrlExtra    == UrlValid \o <<"/", "files">>
UrlNoNumber == <<"https://", "github.com", "/", "acme", "/", "widgets", "/", "pull", "/">>
UrlNotNum   == <<"https://", "github.com", "/", "acme", "/", "widgets", "/", "pull", "/", "abc">>
UrlIssues   == <<"https://", "github.com", "/", "acme", "/", "widgets", "/", "issues", "/", "42">>
UrlEmpty    == <<>>

\* the PR URLs a caller passes to analyzePullRequest
PRUrls == {UrlValid, UrlNoNumber, UrlEmpty}

RepoUrlPlain  == <<"https://", "github.com", "/", "org", "/", "model-repo">>
RepoUrlPulls  == <<"https://", "github.com", "/", "org", "/", "pull", "/", "pull", "/", "1">>

\* the values a caller passes to setModelRepoUrl
ModelRepoUrls == {UrlEmpty, RepoUrlPlain, RepoUrlPulls}

\* the values a caller passes to setGitHubToken
Tokens == {"", "ghp_t"}

\* index of the first "/" at or after position j, Len(s)+1 when there is none
RECURSIVE NextSlash(_, _)
NextSlash(s, j) ==
  IF j > Len(s) THEN Len(s) + 1
  ELSE IF s[j] = "/" THEN j
  ELSE NextSlash(s, j + 1)

\* /github\.com\/([^\/]+)\/([^\/]+)\/pull\/(\d+)/ matched with "github.com" at i
MatchAt(s, i) ==
  /\ i + 1 <= Len(s)
  /\ s[i] = "github.com"
  /\ s[i + 1] = "/"
  /\ LET o2 == NextSlash(s, i + 2)
         r2 == NextSlash(s, o2 + 1)
     IN /\ o2 > i + 2
        /\ o2 <= Len(s)
        /\ r2 > o2 + 1
        /\ r2 + 3 <= Len(s)
        /\ s[r2 + 1] = "pull"
        /\ s[r2 + 2] = "/"
        /\ s[r2 + 3] \in Digits

NoMatch == [matched |-> FALSE, owner |-> <<>>, repo |-> <<>>, prNumber |-> 0]

\* GitHubService.parsePRUrl: null (NoMatch) or {owner, repo, prNumber}
parsePRUrl(url) ==
  LET starts == {i \in 1..Len(url) : MatchAt(url, i)}
  IN IF starts = {} THEN NoMatch
     ELSE LET i  == CHOOSE k \in starts : \A m \in starts : k <= m
              o2 == NextSlash(url, i + 2)
              r2 == NextSlash(url, o2 + 1)
          IN [matched  |-> TRUE,
              owner    |-> SubSeq(url, i + 2, o2 - 1),
              repo     |-> SubSeq(url, o2 + 1, r2 - 1),
              prNumber |-> ParseInt(url[r2 + 3])]

\* GitHubService.isValidPRUrl
isValidPRUrl(url) == parsePRUrl(url).matched

\* String.prototype.replace('/pull/', '/repo/'): the first occurrence only
ReplacePull(s) ==
  LET occ == {i \in 1..Len(s) : /\ i + 2 <= Len(s)
                                /\ s[i] = "/"
                                /\ s[i + 1] = "pull"
                                /\ s[i + 2] = "/"}
  IN IF occ = {} THEN s
     ELSE LET i == CHOOSE k \in occ : \A m \in occ : k <= m
          IN [j \in 1..Len(s) |-> IF j = i + 1 THEN "repo" ELSE s[j]]

\* ---------------------------------------------------------------- errors
\* An error object an observable fails with: code is a string (Undef when the
\* object has no code), message a string, i.e. a token sequence (<<>> when
\* absent or empty), statusCode the HTTP status (0 when the object has none).
MkError(c, m, sc) == [code |-> c, message |-> m, statusCode |-> sc]

\* no error object
NoFailure == MkError(Undef, <<>>, 0)

\* AnalysisError, the payload of AnalysisStatus.error (its timestamp is left out)
AnalysisError(c, m) == [code |-> c, message |-> m]

\* AnalysisStatus.error === undefined
NoError == AnalysisError(Undef, <<>>)

\* x || d for a string code
OrCode(x, d) == IF x = Undef \/ x = "" THEN d ELSE x

\* x || d for a message
OrMessage(x, d) == IF x = <<>> THEN d ELSE x

\* HTTP failures of the GitHub API: status and the body's message
\* (status 0: no HTTP status at all, e.g. an exception in the response mapping)
GitHubFailures ==
  { [status |-> 401, apiMessage |-> <<"Bad credentials">>],
    [status |-> 404, apiMessage |-> <<"Not Found">>] }

\* GitHubService.handleError without its status branches
GitHubHandleErrorGeneric(error) ==
  MkError("GITHUB_API_ERROR", <<"An error occurred while fetching from GitHub">>, error.status)

\* GitHubService.handleError
GitHubHandleError(error) ==
  MkError("GITHUB_API_ERROR",
          IF error.status = 401 THEN <<"Invalid GitHub token or unauthorized access">>
          ELSE IF error.status = 403 THEN <<"GitHub API rate limit exceeded or access forbidden">>
          ELSE IF error.status = 404 THEN <<"Pull request not found">>
          ELSE IF error.apiMessage # <<>> THEN error.apiMessage
          ELSE <<"An error occurred while fetching from GitHub">>,
          error.status)

\* failures of the Azure OpenAI call: HTTP status (0: none), provider code and message
AIFailures ==
  { [status |-> 401, azureCode |-> Undef, azureMessage |-> <<>>] }

\* what `new Error(...)` thrown inside the pipe looks like to handleError
ThrownError == [status |-> 0, azureCode |-> Undef, azureMessage |-> <<>>]

\* AzureOpenAIService.handleError testing the HTTP status 401 before the deployment
AIHandleErrorStatusFirst(error) ==
  IF error.status = 401
    THEN MkError("UNAUTHORIZED", <<"Invalid API Key">>, error.status)
  ELSE IF error.azureCode = "DeploymentNotFound" \/ error.status = 404
    THEN MkError("DEPLOYMENT_NOT_FOUND", <<"Deployment not found">>, error.status)
  ELSE IF error.status = 429
    THEN MkError("RATE_LIMIT", <<"Rate Limit Exceeded">>, error.status)
  ELSE IF error.status = 400
    THEN MkError("BAD_REQUEST",
                 <<"Bad Request">> \o OrMessage(error.azureMessage, <<"Unknown error">>),
                 error.status)
  ELSE IF error.azureMessage # <<>>
    THEN MkError(OrCode(error.azureCode, "AZURE_ERROR"),
                 <<"Azure OpenAI Error">> \o error.azureMessage, error.status)
  ELSE MkError("AI_ERROR", <<"An error occurred while calling Azure OpenAI">>, error.status)

\* AzureOpenAIService.handleError
AIHandleError(error) ==
  IF error.azureCode = "DeploymentNotFound" \/ error.status = 404
    THEN MkError("DEPLOYMENT_NOT_FOUND", <<"Deployment not found">>, error.status)
  ELSE IF error.status = 401
    THEN MkError("UNAUTHORIZED", <<"Invalid API Key">>, error.status)
  ELSE IF error.status = 429
    THEN MkError("RATE_LIMIT", <<"Rate Limit Exceeded">>, error.status)
  ELSE IF error.status = 400
    THEN MkError("BAD_REQUEST",
                 <<"Bad Request">> \o OrMessage(error.azureMessage, <<"Unknown error">>),
                 error.status)
  ELSE IF error.azureMessage # <<>>
    THEN MkError(OrCode(error.azureCode, "AZURE_ERROR"),
                 <<"Azure OpenAI Error">> \o error.azureMessage, error.status)
  ELSE MkError("AI_ERROR", <<"An error occurred while calling Azure OpenAI">>, error.status)

\* ------------------------------------------------- provider configuration
EndpointGood == <<"https://", "acme", ".openai.azure.com">>
EndpointPath == EndpointGood \o <<"/", "openai", "/", "deployments">>
EndpointBad  == <<"http://", "localhost">>

\* resource names matching [a-zA-Z0-9-]+
ResourceNames == {"acme"}

MkConfig(k, e, d) == [apiKey |-> k, endpoint |-> e, deployment |-> d]

\* AzureOpenAIService.config as constructed
DefaultConfig == MkConfig("", <<>>, "")

\* the configurations a caller passes to setConfig
AIConfigs ==
  { MkConfig("key", EndpointPath, "gpt"),
    MkConfig("", <<>>, "") }

RECURSIVE StripSlashes(_)
\* replace(/\/+$/, '')
StripSlashes(e) ==
  IF e # <<>> /\ e[Len(e)] = "/" THEN StripSlashes(SubSeq(e, 1, Len(e) - 1)) ELSE e

\* replace(/\/openai.*$/i, '').replace(/\/responses.*$/i, '')
StripApiPath(e) ==
  LET occ == {i \in 1..Len(e) : /\ i + 1 <= Len(e)
                                /\ e[i] = "/"
                                /\ e[i + 1] \in {"openai", "responses"}}
  IN IF occ = {} THEN e
     ELSE SubSeq(e, 1, (CHOOSE k \in occ : \A m \in occ : k <= m) - 1)

\* AzureOpenAIService.normalizeEndpoint
normalizeEndpoint(e) == StripApiPath(StripSlashes(e))

\* /^https:\/\/[a-zA-Z0-9-]+\.openai\.azure\.com$/
EndpointPatternTest(e) ==
  /\ Len(e) = 3
  /\ e[1] = "https://"
  /\ e[2] \in ResourceNames
  /\ e[3] = ".openai.azure.com"

\* validateConfig testing the deployment before the key and the endpoint
validateConfigDeploymentFirst(c) ==
  IF c.deployment = "" THEN [valid |-> FALSE, error |-> <<"Deployment name is missing!">>]
  ELSE IF c.apiKey = "" THEN [valid |-> FALSE, error |-> <<"API Key is missing!">>]
  ELSE IF c.endpoint = <<>> THEN [valid |-> FALSE, error |-> <<"Endpoint URL is missing!">>]
  ELSE IF ~EndpointPatternTest(c.endpoint)
    THEN [valid |-> FALSE, error |-> <<"Invalid endpoint format!">> \o c.endpoint]
  ELSE [valid |-> TRUE, error |-> <<>>]

\* AzureOpenAIService.validateConfig
validateConfig(c) ==
  IF c.apiKey = "" THEN [valid |-> FALSE, error |-> <<"API Key is missing!">>]
  ELSE IF c.endpoint = <<>> THEN [valid |-> FALSE, error |-> <<"Endpoint URL is missing!">>]
  ELSE IF c.deployment = "" THEN [valid |-> FALSE, error |-> <<"Deployment name is missing!">>]
  ELSE IF ~EndpointPatternTest(c.endpoint)
    THEN [valid |-> FALSE, error |-> <<"Invalid endpoint format!">> \o c.endpoint]
  ELSE [valid |-> TRUE, error |-> <<>>]

\* what setConfig stores for the configuration it is given
StoredConfig(c) ==
  IF c.endpoint # <<>> THEN [c EXCEPT !.endpoint = normalizeEndpoint(c.endpoint)] ELSE c

\* AzureOpenAIService.analyzePR up to callAI: whether the request is sent, and
\* the error of throwError when the configuration does not validate
analyzePR(cfg) ==
  LET validation == validateConfig(cfg)
  IN IF ~validation.valid
       THEN [sent |-> FALSE, error |-> MkError("INVALID_CONFIG", validation.error, 0)]
       ELSE [sent |-> TRUE, error |-> NoFailure]

\* AzureOpenAIService.generateTests up to callAI
generateTests(cfg) ==
  LET validation == validateConfig(cfg)
  IN IF ~validation.valid
       THEN [sent |-> FALSE, error |-> MkError("INVALID_CONFIG", validation.error, 0)]
       ELSE [sent |-> TRUE, error |-> NoFailure]

\* ------------------------------------------------------- provider payloads
\* A JSON value found in (or missing from) a field of the parsed response:
\* kind "absent", "falsy" (null, 0, false, ""), "object" (any truthy value
\* that is not an array) or "array" with its elements.
Json(k, es) == [kind |-> k, elems |-> es]

Absent == Json("absent", <<>>)
EmptyArray == Json("array", <<>>)

\* array elements: an object with (some of) the documented fields, or null
ElemObj  == [isNull |-> FALSE, title |-> "T", expected |-> "E"]
ElemNull == [isNull |-> TRUE, title |-> Undef, expected |-> Undef]

MkPayload(k, sg, se, pe, re, te) ==
  [kind |-> k, suggestions |-> sg, security |-> se, performance |-> pe,
   recommendations |-> re, tests |-> te]

\* message contents of the AI Reviewer response: kind "empty" (no content),
\* "invalid" (JSON.parse throws), "null" (the JSON text null), "object"
AIContents ==
  { MkPayload("invalid", Absent, Absent, Absent, Absent, Absent),
    MkPayload("object", Json("array", <<ElemObj>>), Absent, Absent, Absent, Absent),
    MkPayload("object", Absent, Json("array", <<ElemNull>>), Json("object", <<>>), Absent, Absent) }

MkTestContent(k, sc) == [kind |-> k, scenarios |-> sc]

\* message contents of the Test Generator response
TestContents ==
  { MkTestContent("invalid", Absent),
    MkTestContent("null", Absent),
    MkTestContent("object", Json("array", <<ElemObj>>)) }

\* v || []
OrEmpty(v) == IF v.kind \in {"absent", "falsy"} THEN EmptyArray ELSE v

NoAIResult == MkPayload("none", Absent, Absent, Absent, Absent, Absent)

\* parseAnalysisResponse answering with empty lists where it would throw
parseAnalysisResponseLenient(content) ==
  IF content.kind # "object"
    THEN [ok |-> TRUE,
          value |-> MkPayload("object", EmptyArray, EmptyArray, EmptyArray, EmptyArray,
                              EmptyArray)]
    ELSE [ok |-> TRUE,
          value |-> MkPayload("object", OrEmpty(content.suggestions), OrEmpty(content.security),
                              OrEmpty(content.performance), OrEmpty(content.recommendations),
                              OrEmpty(content.tests))]

\* AzureOpenAIService.parseAnalysisResponse: ok = FALSE when it throws
parseAnalysisResponse(content) ==
  IF content.kind # "object"
    THEN [ok |-> FALSE, value |-> NoAIResult]
    ELSE [ok |-> TRUE,
          value |-> MkPayload("object", OrEmpty(content.suggestions), OrEmpty(content.security),
                              OrEmpty(content.performance), OrEmpty(content.recommendations),
                              OrEmpty(content.tests))]

\* AzureOpenAIService.parseTestResponse: ok = FALSE when it throws;
\* the JSON text null parses, to null
parseTestResponse(content) ==
  IF content.kind \in {"empty", "invalid"}
    THEN [ok |-> FALSE, value |-> MkTestContent("none", Absent)]
    ELSE [ok |-> TRUE, value |-> content]

\* of({ scenarios: [] })
EmptyTests == MkTestContent("object", EmptyArray)

\* v.map(e => e.field ...) returns normally: v is an array without null elements
Mappable(v) == v.kind = "array" /\ \A i \in 1..Len(v.elems) : ~v.elems[i].isNull

\* mapTestCases keeping the id the provider supplied
mapTestCasesProviderId(scenarios) ==
  [i \in 1..Len(scenarios.elems) |->
     [id |-> IF scenarios.elems[i].id # <<>> THEN scenarios.elems[i].id ELSE <<"test", i - 1>>,
      scenario |-> scenarios.elems[i].title,
      title |-> scenarios.elems[i].title, type |-> "integration",
      assertions |-> <<scenarios.elems[i].expected>>]]

\* AnalysisService.mapTestCases
mapTestCases(scenarios) ==
  [i \in 1..Len(scenarios.elems) |->
     [id |-> <<"test", i - 1>>, scenario |-> scenarios.elems[i].title,
      title |-> scenarios.elems[i].title, type |-> "integration",
      assertions |-> <<scenarios.elems[i].expected>>]]

\* no AnalysisResult; id and timestamp are filled in by WithIdentity
NoResult == [present |-> FALSE, testCases |-> <<>>, id |-> <<>>, timestamp |-> 0]

\* the values Date.now() and new Date() can read
Times == 1..MaxTime

\* the values Math.random().toString(36).substr(2, 9) can yield
RandomStrings == {"k3j9", "x0q1"}

\* AnalysisService.generateId: `analysis-${Date.now()}-${random}`
generateId(now, rnd) == <<"analysis", now, rnd>>

\* the id and timestamp fields of formatAnalysisResult: generateId() reads the
\* clock and the random source, new Date().toISOString() reads the clock again
WithIdentity(res, idNow, rnd, tsNow) ==
  IF res.present
    THEN [res EXCEPT !.id = generateId(idNow, rnd), !.timestamp = tsNow]
    ELSE res

\* AnalysisService.formatAnalysisResult after its updateStatus: the result,
\* or threw = TRUE when one of the mappings throws a TypeError
formatAnalysisResult(aiResult, testData) ==
  IF /\ Mappable(aiResult.security)
     /\ Mappable(aiResult.suggestions)
     /\ Mappable(aiResult.performance)
     /\ Mappable(aiResult.tests)
     /\ testData.kind # "null"
     /\ Mappable(OrEmpty(testData.scenarios))
     /\ Mappable(aiResult.recommendations)
    THEN [threw |-> FALSE,
          value |-> [present |-> TRUE, testCases |-> mapTestCases(OrEmpty(testData.scenarios)),
                     id |-> <<>>, timestamp |-> 0]]
    ELSE [threw |-> TRUE, value |-> NoResult]

\* ------------------------------------------------------------------ state
VARIABLES
  status,        \* AnalysisService.status, the shared signal
  githubToken,   \* AnalysisService.githubToken
  modelRepoUrl,  \* AnalysisService.modelRepoUrl
  config,        \* AzureOpenAIService.config
  stage,         \* per invocation: where its observable is
  prUrl,         \* per invocation: the URL its pipeline has captured
  fetchPending,  \* per invocation: the forkJoin sources that have not emitted
  issued,        \* per invocation: HTTP requests sent, by kind
  writes,        \* per invocation: the values it has set the status to, in order
  failure,       \* per invocation: the error its observable carries
  result,        \* per invocation: the AnalysisResult emitted
  aiResult,      \* per invocation: the AIAnalysisResponse of the review stage
  prData,        \* per invocation: the responses merged into the GitHubPullRequest passed on
  overlapped,    \* history: an invocation was started while another was in flight
  reviewContent, \* per invocation: the message content of the AI Reviewer's answer
  context,       \* per invocation: the context the load-context stage emitted
  configState,   \* ConfigService.configState, the stored AppConfig or null
  analysisResult, \* App.analysisResult, the result displayed and offered for download
  call,          \* a library function evaluated on its own: its name and argument
  ret            \* the value that evaluation returned

\* the variables of the evaluation of a library function on its own
libVars == <<call, ret>>

\* the variables of the services and of the invocations
serviceVars == <<status, githubToken, modelRepoUrl, config, stage, prUrl, fetchPending,
                 issued, writes, failure, result, aiResult, prData, overlapped,
                 reviewContent, context, configState, analysisResult>>

vars == <<serviceVars, libVars>>

CallKinds == {"pr", "files", "commits", "context", "review", "tests"}

FetchKinds == {"pr", "files", "commits"}

\* forkJoin emitting as soon as any one source has emitted
forkJoinRace(pending, k) ==
  [done |-> TRUE, value |-> FetchKinds \ (pending \ {k})]

\* forkJoin({pr, files, commits}) when source k emits while `pending` have not:
\* it emits once every source has, the value holding what each source emitted
forkJoin(pending, k) ==
  [done |-> pending \ {k} = {}, value |-> FetchKinds \ (pending \ {k})]

\* no library function is being evaluated
NoCall == [fn |-> "none"]

\* the evaluation has not returned
NoReturn == [returned |-> FALSE]

\* an observable that has been returned and has neither emitted nor failed
InFlight(r) == stage[r] \in {"cold", "fetch", "context", "review", "tests"}

\* AnalysisService.updateStatus: the record replaces the previous one
updateStatus(st, progress, currentStep, error) ==
  [status |-> st, progress |-> progress, currentStep |-> currentStep, error |-> error]

\* what one synchronous block does to an invocation: its next stage, the
\* status values it sets (in order), the requests it sends, the error or the
\* result it hands to the subscriber, the review payload it holds
Eff(st, ws, calls, err, res, ai) ==
  [stage |-> st, writes |-> ws, calls |-> calls, error |-> err, result |-> res, ai |-> ai]

\* the TypeError of `x.map is not a function` / `Cannot read properties of null`
TypeError == MkError(Undef, <<"TypeError">>, 0)

\* catchError of analyzePullRequest reporting a fixed code
CatchErrorFixedCode(ws, error, ai) ==
  Eff("failed",
      ws \o <<updateStatus("failed", 0, Undef,
                           AnalysisError("ANALYSIS_ERROR",
                                         OrMessage(error.message, <<"Analysis failed">>)))>>,
      {}, error, NoResult, NoAIResult)

\* catchError of analyzePullRequest setting the failed status without its error
CatchErrorNoPayload(ws, error, ai) ==
  Eff("failed", ws \o <<updateStatus("failed", 0, Undef, NoError)>>,
      {}, error, NoResult, NoAIResult)

\* catchError of analyzePullRequest
CatchError(ws, error, ai) ==
  Eff("failed",
      ws \o <<updateStatus("failed", 0, Undef,
                           AnalysisError(OrCode(error.code, "ANALYSIS_ERROR"),
                                         OrMessage(error.message, <<"Analysis failed">>)))>>,
      {}, error, NoResult, NoAIResult)

\* map(formatAnalysisResult): step 5
FormatStep(ws, ai, testData) ==
  LET ws2 == ws \o <<updateStatus("completed", 100, "Analysis complete", NoError)>>
      f   == formatAnalysisResult(ai, testData)
  IN IF f.threw THEN CatchError(ws2, TypeError, ai)
     ELSE Eff("completed", ws2, {}, NoFailure, f.value, NoAIResult)

\* generateTestCases with a mistyped progress value
TestsStepTypo(ws, ai, cfg) ==
  LET ws2 == ws \o <<updateStatus("analyzing", 25, "Generating test cases...", NoError)>>
  IN IF ~validateConfig(cfg).valid THEN FormatStep(ws2, ai, EmptyTests)
     ELSE Eff("tests", ws2, {"tests"}, NoFailure, NoResult, ai)

\* generateTestCases without its updateStatus
TestsStepSilent(ws, ai, cfg) ==
  IF ~validateConfig(cfg).valid THEN FormatStep(ws, ai, EmptyTests)
  ELSE Eff("tests", ws, {"tests"}, NoFailure, NoResult, ai)

\* generateTestCases up to the request: step 4 with generateTests' validation,
\* whose error the inner catchError turns into of({ scenarios: [] })
TestsStep(ws, ai, cfg) ==
  LET ws2 == ws \o <<updateStatus("analyzing", 75, "Generating test cases...", NoError)>>
  IN IF ~generateTests(cfg).sent THEN FormatStep(ws2, ai, EmptyTests)
     ELSE Eff("tests", ws2, {"tests"}, NoFailure, NoResult, ai)

\* performAIAnalysis calling an analyzePR that does not validate the configuration
ReviewStepUnchecked(ws, cfg) ==
  Eff("review", ws \o <<updateStatus("analyzing", 50, "Analyzing code with AI...", NoError)>>,
      {"review"}, NoFailure, NoResult, NoAIResult)

\* performAIAnalysis sending the test-generation request along with the review request
ReviewStepParallel(ws, cfg) ==
  LET ws2 == ws \o <<updateStatus("analyzing", 50, "Analyzing code with AI...", NoError)>>
      v   == validateConfig(cfg)
  IN IF ~v.valid THEN CatchError(ws2, MkError("INVALID_CONFIG", v.error, 0), NoAIResult)
     ELSE Eff("review", ws2, {"review", "tests"}, NoFailure, NoResult, NoAIResult)

\* performAIAnalysis up to the request: step 3 with analyzePR's validation
ReviewStep(ws, cfg) ==
  LET ws2 == ws \o <<updateStatus("analyzing", 50, "Analyzing code with AI...", NoError)>>
      a   == analyzePR(cfg)
  IN IF ~a.sent THEN CatchError(ws2, a.error, NoAIResult)
     ELSE Eff("review", ws2, {"review"}, NoFailure, NoResult, NoAIResult)

\* no context emitted (yet)
NoContext == [present |-> FALSE]

\* the context with three empty strings, which is also what the placeholder
\* mapping of loadModelRepoContext returns
EmptyContext ==
  [present |-> TRUE, codingStandards |-> "", architecturePatterns |-> "",
   testingGuidelines |-> ""]

\* GitHubService.loadModelRepoContext up to its request: whether the request
\* is sent, and the error thrown when the URL does not parse
loadModelRepoContext(url) ==
  IF ~parsePRUrl(ReplacePull(url)).matched
    THEN [sent |-> FALSE, emitted |-> FALSE, value |-> NoContext,
          error |-> MkError(Undef, <<"Invalid model repository URL">>, 0)]
  ELSE [sent |-> TRUE, emitted |-> FALSE, value |-> NoContext, error |-> NoFailure]

\* loadContext without the branch for an unset URL
loadContextAlwaysFetch(url) == loadModelRepoContext(url)

\* AnalysisService.loadContext after its updateStatus: of(...) when no URL is set
loadContext(url) ==
  IF url = <<>>
    THEN [sent |-> FALSE, emitted |-> TRUE, value |-> EmptyContext, error |-> NoFailure]
  ELSE loadModelRepoContext(url)

\* loadContext up to the request: step 2 with loadModelRepoContext's parse
ContextStep(ws, repoUrl, cfg) ==
  LET ws2 == ws \o <<updateStatus("analyzing", 30, "Loading coding standards...", NoError)>>
      c   == loadContext(repoUrl)
  IN IF c.emitted THEN ReviewStep(ws2, cfg)
     ELSE IF ~c.sent THEN CatchError(ws2, c.error, NoAIResult)
     ELSE Eff("context", ws2, {"context"}, NoFailure, NoResult, NoAIResult)

\* analyzePullRequest without the reset of the status
CallStepNoReset(token, url) ==
  IF token = ""
    THEN Eff("coldError", <<>>, {}, MkError("MISSING_TOKEN", <<"GitHub token is required">>, 0),
             NoResult, NoAIResult)
  ELSE IF ~isValidPRUrl(url)
    THEN Eff("coldError", <<>>, {}, MkError("INVALID_URL", <<"Invalid GitHub PR URL">>, 0),
             NoResult, NoAIResult)
  ELSE Eff("cold", <<updateStatus("analyzing", 10, "Fetching PR data...", NoError)>>,
           {}, NoFailure, NoResult, NoAIResult)

\* analyzePullRequest without the check of the URL
CallStepNoUrlCheck(token, url) ==
  IF token = ""
    THEN Eff("coldError", <<>>, {}, MkError("MISSING_TOKEN", <<"GitHub token is required">>, 0),
             NoResult, NoAIResult)
  ELSE Eff("cold",
           <<updateStatus("analyzing", 0, "Fetching PR data...", NoError),
             updateStatus("analyzing", 10, "Fetching PR data...", NoError)>>,
           {}, NoFailure, NoResult, NoAIResult)

\* the body of analyzePullRequest: validation, reset, fetchPRData's update
CallStep(token, url) ==
  IF token = ""
    THEN Eff("coldError", <<>>, {}, MkError("MISSING_TOKEN", <<"GitHub token is required">>, 0),
             NoResult, NoAIResult)
  ELSE IF ~isValidPRUrl(url)
    THEN Eff("coldError", <<>>, {}, MkError("INVALID_URL", <<"Invalid GitHub PR URL">>, 0),
             NoResult, NoAIResult)
  ELSE Eff("cold",
           <<updateStatus("analyzing", 0, "Fetching PR data...", NoError),
             updateStatus("analyzing", 10, "Fetching PR data...", NoError)>>,
           {}, NoFailure, NoResult, NoAIResult)

\* ConfigService.configState before anything is stored
NoConfig == [present |-> FALSE]

\* App.onAnalysisComplete as the `next` handler of the component's
\* subscription: an emitted result replaces the one held
onAnalysisComplete(held, emitted) ==
  IF emitted.present THEN emitted ELSE held

\* the assignments an effect stands for
Apply(r, e) ==
  /\ stage' = [stage EXCEPT ![r] = e.stage]
  /\ status' = IF e.writes = <<>> THEN status ELSE e.writes[Len(e.writes)]
  /\ writes' = [writes EXCEPT ![r] = @ \o e.writes]
  /\ issued' = [issued EXCEPT ![r] =
                  [k \in CallKinds |-> IF k \in e.calls THEN @[k] + 1 ELSE @[k]]]
  /\ failure' = [failure EXCEPT ![r] = e.error]
  /\ \E idNow \in Times, rnd \in RandomStrings, tsNow \in Times :
       /\ idNow <= tsNow
       /\ result' = [result EXCEPT ![r] = WithIdentity(e.result, idNow, rnd, tsNow)]
       /\ analysisResult' = onAnalysisComplete(analysisResult,
                                               WithIdentity(e.result, idNow, rnd, tsNow))
  /\ aiResult' = [aiResult EXCEPT ![r] = e.ai]

\* the value the status signal is constructed with
InitialStatus ==
  [status |-> "pending", progress |-> 0, currentStep |-> Undef, error |-> NoError]

\* no invocation yet
RunsInit ==
  /\ status = InitialStatus
  /\ stage = [r \in Runs |-> "idle"]
  /\ prUrl = [r \in Runs |-> <<>>]
  /\ fetchPending = [r \in Runs |-> {}]
  /\ issued = [r \in Runs |-> [k \in CallKinds |-> 0]]
  /\ writes = [r \in Runs |-> <<>>]
  /\ failure = [r \in Runs |-> NoFailure]
  /\ result = [r \in Runs |-> NoResult]
  /\ aiResult = [r \in Runs |-> NoAIResult]
  /\ prData = [r \in Runs |-> {}]
  /\ overlapped = FALSE
  /\ reviewContent = [r \in Runs |-> NoAIResult]
  /\ context = [r \in Runs |-> NoContext]
  /\ analysisResult = NoResult

\* the services as constructed, nothing stored
ServiceInit ==
  /\ RunsInit
  /\ githubToken = ""
  /\ modelRepoUrl = <<>>
  /\ config = DefaultConfig
  /\ configState = NoConfig

Init ==
  /\ ServiceInit
  /\ call = NoCall
  /\ ret = NoReturn

\* AnalysisService.setGitHubToken
setGitHubToken(token) ==
  /\ token # githubToken
  /\ githubToken' = token
  /\ UNCHANGED <<libVars, reviewContent, context, configState, analysisResult, prData, status, modelRepoUrl, config, stage, prUrl, fetchPending, issued,
                 writes, failure, result, aiResult, overlapped>>

\* AnalysisService.setModelRepoUrl
setModelRepoUrl(url) ==
  /\ url # modelRepoUrl
  /\ modelRepoUrl' = url
  /\ UNCHANGED <<libVars, reviewContent, context, configState, analysisResult, prData, status, githubToken, config, stage, prUrl, fetchPending, issued,
                 writes, failure, result, aiResult, overlapped>>

\* AzureOpenAIService.setConfig
setConfig(c) ==
  /\ config' = StoredConfig(c)
  /\ UNCHANGED <<libVars, reviewContent, context, configState, analysisResult, prData, status, githubToken, modelRepoUrl, stage, prUrl, fetchPending, issued,
                 writes, failure, result, aiResult, overlapped>>

\* AnalysisService.analyzePullRequest(url), the r-th invocation
analyzePullRequest(r, url) ==
  /\ stage[r] = "idle"
  /\ \A q \in Runs : q < r => stage[q] # "idle"
  /\ LET e == CallStep(githubToken, url)
     IN /\ Apply(r, e)
        /\ overlapped' = (overlapped \/ (e.stage = "cold" /\ \E q \in Runs : InFlight(q)))
  /\ prUrl' = [prUrl EXCEPT ![r] = IF isValidPRUrl(url) /\ githubToken # "" THEN url ELSE <<>>]
  /\ UNCHANGED <<libVars, reviewContent, context, configState, prData, githubToken, modelRepoUrl, config, fetchPending>>

\* subscribe() on the returned observable: throwError delivers its error,
\* forkJoin subscribes to the three requests
Subscribe(r) ==
  /\ stage[r] \in {"cold", "coldError"}
  /\ IF stage[r] = "coldError"
       THEN /\ stage' = [stage EXCEPT ![r] = "rejected"]
            /\ UNCHANGED <<issued, fetchPending>>
       ELSE /\ stage' = [stage EXCEPT ![r] = "fetch"]
            /\ issued' = [issued EXCEPT ![r] =
                            [k \in CallKinds |-> IF k \in FetchKinds THEN @[k] + 1 ELSE @[k]]]
            /\ fetchPending' = [fetchPending EXCEPT ![r] = FetchKinds]
  /\ UNCHANGED <<libVars, reviewContent, context, configState, analysisResult, prData, status, githubToken, modelRepoUrl, config, prUrl, writes, failure,
                 result, aiResult, overlapped>>

\* one of the three PR requests succeeds; the last one completes the forkJoin
FetchOk(r, k) ==
  /\ stage[r] = "fetch"
  /\ k \in fetchPending[r]
  /\ fetchPending' = [fetchPending EXCEPT ![r] = @ \ {k}]
  /\ LET j == forkJoin(fetchPending[r], k)
     IN IF j.done
          THEN /\ Apply(r, ContextStep(<<>>, modelRepoUrl, config))
               /\ prData' = [prData EXCEPT ![r] = j.value]
               /\ context' = [context EXCEPT ![r] = loadContext(modelRepoUrl).value]
          ELSE UNCHANGED <<stage, status, writes, issued, failure, result, aiResult, prData,
                           context, analysisResult>>
  /\ UNCHANGED <<libVars, reviewContent, configState, githubToken, modelRepoUrl, config, prUrl, overlapped>>

\* one of the three PR requests fails: forkJoin fails and drops the others
FetchFail(r, k, error) ==
  /\ stage[r] = "fetch"
  /\ k \in fetchPending[r]
  /\ fetchPending' = [fetchPending EXCEPT ![r] = {}]
  /\ Apply(r, CatchError(<<>>, GitHubHandleError(error), NoAIResult))
  /\ UNCHANGED <<libVars, reviewContent, context, configState, prData, githubToken, modelRepoUrl, config, prUrl, overlapped>>

\* the repository-contents request of loadModelRepoContext succeeds
ContextOk(r) ==
  /\ stage[r] = "context"
  /\ Apply(r, ReviewStep(<<>>, config))
  /\ context' = [context EXCEPT ![r] = EmptyContext]
  /\ UNCHANGED <<libVars, reviewContent, configState, prData, githubToken, modelRepoUrl, config, prUrl, fetchPending, overlapped>>

\* the repository-contents request fails
ContextFail(r, error) ==
  /\ stage[r] = "context"
  /\ Apply(r, CatchError(<<>>, GitHubHandleError(error), NoAIResult))
  /\ UNCHANGED <<libVars, reviewContent, context, configState, prData, githubToken, modelRepoUrl, config, prUrl, fetchPending, overlapped>>

\* the chat-completion request of analyzePR answers with a message content
ReviewOk(r, content) ==
  /\ stage[r] = "review"
  /\ LET p == parseAnalysisResponse(content)
     IN IF p.ok THEN Apply(r, TestsStep(<<>>, p.value, config))
        ELSE Apply(r, CatchError(<<>>, AIHandleError(ThrownError), NoAIResult))
  /\ reviewContent' = [reviewContent EXCEPT ![r] = content]
  /\ UNCHANGED <<libVars, context, configState, prData, githubToken, modelRepoUrl, config, prUrl, fetchPending, overlapped>>

\* the chat-completion request of analyzePR fails
ReviewFail(r, error) ==
  /\ stage[r] = "review"
  /\ Apply(r, CatchError(<<>>, AIHandleError(error), NoAIResult))
  /\ UNCHANGED <<libVars, reviewContent, context, configState, prData, githubToken, modelRepoUrl, config, prUrl, fetchPending, overlapped>>

\* the chat-completion request of generateTests answers with a message content
TestsOk(r, content) ==
  /\ stage[r] = "tests"
  /\ LET p == parseTestResponse(content)
     IN Apply(r, FormatStep(<<>>, aiResult[r], IF p.ok THEN p.value ELSE EmptyTests))
  /\ UNCHANGED <<libVars, reviewContent, context, configState, prData, githubToken, modelRepoUrl, config, prUrl, fetchPending, overlapped>>

\* generateTestCases with a retry(1) in front of its catchError
TestsFailRetry(r, error) ==
  /\ stage[r] = "tests"
  /\ IF issued[r]["tests"] < 2
       THEN Apply(r, Eff("tests", <<>>, {"tests"}, NoFailure, NoResult, aiResult[r]))
       ELSE Apply(r, FormatStep(<<>>, aiResult[r], EmptyTests))
  /\ UNCHANGED <<libVars, reviewContent, context, configState, prData, githubToken, modelRepoUrl, config, prUrl, fetchPending, overlapped>>

\* the chat-completion request of generateTests fails
TestsFail(r, error) ==
  /\ stage[r] = "tests"
  /\ Apply(r, FormatStep(<<>>, aiResult[r], EmptyTests))
  /\ UNCHANGED <<libVars, reviewContent, context, configState, prData, githubToken, modelRepoUrl, config, prUrl, fetchPending, overlapped>>

Next ==
  \/ \E t \in Tokens : setGitHubToken(t)
  \/ \E u \in ModelRepoUrls : setModelRepoUrl(u)
  \/ \E c \in AIConfigs : setConfig(c)
  \/ \E r \in Runs, u \in PRUrls : analyzePullRequest(r, u)
  \/ \E r \in Runs : Subscribe(r)
  \/ \E r \in Runs, k \in FetchKinds : FetchOk(r, k)
  \/ \E r \in Runs, k \in FetchKinds, e \in GitHubFailures : FetchFail(r, k, e)
  \/ \E r \in Runs : ContextOk(r)
  \/ \E r \in Runs, e \in GitHubFailures : ContextFail(r, e)
  \/ \E r \in Runs, c \in AIContents : ReviewOk(r, c)
  \/ \E r \in Runs, e \in AIFailures : ReviewFail(r, e)
  \/ \E r \in Runs, c \in TestContents : TestsOk(r, c)
  \/ \E r \in Runs, e \in AIFailures : TestsFail(r, e)

Spec == Init /\ [][Next]_vars

\* ------------------------------------------- library functions on their own
\* The pure functions of the services, each evaluated on an argument drawn
\* from a bounded set: `call` holds the function and its argument, `ret` what
\* the evaluation returned.

\* what a call returned
Returned(v) == [returned |-> TRUE, value |-> v]

\* ---- GitHubService.parsePRUrl / isValidPRUrl
UrlSchemes ==
  { <<>>, <<"https://">>, <<"https://", "evil.example", "/", "?next=", "https://">> }

UrlHosts == {"github.com", "gitlab.com"}

UrlOwners == { <<"acme">>, <<>> }

UrlRepos == { <<"widgets">>, <<>> }

UrlKeywords == {"pull", "issues"}

\* the text after the keyword's slash: a number, letters, nothing, a number
\* immediately followed by letters
UrlNumbers == { <<"42">>, <<"abc">>, <<>>, <<"42", "abc">> }

UrlSuffixes == { <<>>, <<"/", "files">> }

\* the strings parsePRUrl is evaluated on
UrlInputs ==
  {UrlEmpty} \cup
  { sch \o <<h, "/">> \o o \o <<"/">> \o rp \o <<"/", kw, "/">> \o n \o sfx :
      sch \in UrlSchemes, h \in UrlHosts, o \in UrlOwners, rp \in UrlRepos,
      kw \in UrlKeywords, n \in UrlNumbers, sfx \in UrlSuffixes }

ParsePRUrlCalls == { [fn |-> "parsePRUrl", url |-> u] : u \in UrlInputs }

\* parsePRUrl(url) and isValidPRUrl(url) return
EvalParsePRUrl ==
  /\ call.fn = "parsePRUrl"
  /\ ~ret.returned
  /\ ret' = [returned |-> TRUE, value |-> parsePRUrl(call.url), valid |-> isValidPRUrl(call.url)]
  /\ UNCHANGED <<serviceVars, call>>

\* ---- parseAnalysisResponse and the map functions of formatAnalysisResult
\* x || d for a string field of an element
OrDefault(x, d) == IF x \in {Undef, ""} THEN d ELSE x

\* the elements of the arrays of a response: each field is missing (Undef),
\* present and empty, or present with a value
RichElems ==
  [isNull : {FALSE}, severity : {Undef, "", "error"}, category : {Undef, "", "security"},
   impact : {Undef, "", "high"}, priority : {Undef, "", "low"}]

\* AnalysisService.mapSuggestions
mapSuggestions(v) ==
  [i \in 1..Len(v.elems) |->
     [id |-> <<"suggestion", i - 1>>,
      severity |-> OrDefault(v.elems[i].severity, "info"),
      category |-> OrDefault(v.elems[i].category, "best-practice")]]

\* AnalysisService.mapSecurityIssues with the fallback of mapSuggestions
mapSecurityIssuesInfo(v) ==
  [i \in 1..Len(v.elems) |->
     [id |-> <<"security", i - 1>>, severity |-> OrDefault(v.elems[i].severity, "info")]]

\* AnalysisService.mapSecurityIssues
mapSecurityIssues(v) ==
  [i \in 1..Len(v.elems) |->
     [id |-> <<"security", i - 1>>, severity |-> OrDefault(v.elems[i].severity, "medium")]]

\* AnalysisService.mapPerformanceIssues
mapPerformanceIssues(v) ==
  [i \in 1..Len(v.elems) |->
     [id |-> <<"performance", i - 1>>, impact |-> OrDefault(v.elems[i].impact, "medium")]]

\* AnalysisService.mapRecommendations
mapRecommendations(v) ==
  [i \in 1..Len(v.elems) |->
     [id |-> <<"rec", i - 1>>,
      category |-> OrDefault(v.elems[i].category, "maintainability"),
      priority |-> OrDefault(v.elems[i].priority, "medium")]]

\* AnalysisService.mapTestScenarios
mapTestScenarios(v) ==
  [i \in 1..Len(v.elems) |->
     [id |-> <<"scenario", i - 1>>,
      priority |-> OrDefault(v.elems[i].priority, "medium"),
      category |-> OrDefault(v.elems[i].category, "functional")]]

\* the five arrays of the AI Reviewer response
ArrayFields == {"suggestions", "security", "performance", "recommendations", "tests"}

\* the message contents the parse-and-map chain is evaluated on: each array
\* is missing or holds one element
ResponseInputs ==
  { MkPayload("object",
              IF "suggestions" \in present THEN Json("array", <<e>>) ELSE Absent,
              IF "security" \in present THEN Json("array", <<e>>) ELSE Absent,
              IF "performance" \in present THEN Json("array", <<e>>) ELSE Absent,
              IF "recommendations" \in present THEN Json("array", <<e>>) ELSE Absent,
              IF "tests" \in present THEN Json("array", <<e>>) ELSE Absent) :
      e \in RichElems, present \in SUBSET ArrayFields }

MapResponseCalls == { [fn |-> "mapResponse", content |-> c] : c \in ResponseInputs }

\* parseAnalysisResponse(content) returns and formatAnalysisResult maps its arrays
EvalMapResponse ==
  /\ call.fn = "mapResponse"
  /\ ~ret.returned
  /\ LET p == parseAnalysisResponse(call.content).value
     IN ret' = [returned |-> TRUE,
                parsed |-> p,
                suggestions |-> mapSuggestions(p.suggestions),
                security |-> mapSecurityIssues(p.security),
                performance |-> mapPerformanceIssues(p.performance),
                recommendations |-> mapRecommendations(p.recommendations),
                testScenarios |-> mapTestScenarios(p.tests)]
  /\ UNCHANGED <<serviceVars, call>>

\* ---- the six mappings of formatAnalysisResult on arrays of several elements
\* the longest array the mappings are evaluated on
MaxElems == 2

\* an element the provider sent: mark m in every field the mappings read,
\* and the id it supplied (<<>> when it supplied none)
MarkedElem(m, id) ==
  [isNull |-> FALSE, id |-> id, severity |-> m, category |-> m, impact |-> m,
   priority |-> m, title |-> m, expected |-> m]

MarkedElems ==
  { MarkedElem(m, id) : m \in {"a", "b"}, id \in {<<>>, <<"test", 7>>} }

MapCollectionsCalls ==
  { [fn |-> "mapCollections", elems |-> es] :
      es \in UNION { [1..n -> MarkedElems] : n \in 0..MaxElems } }

\* the six mappings of formatAnalysisResult, each applied to the array
EvalMapCollections ==
  /\ call.fn = "mapCollections"
  /\ ~ret.returned
  /\ LET v == Json("array", call.elems)
     IN ret' = [returned |-> TRUE,
                suggestions |-> mapSuggestions(v),
                security |-> mapSecurityIssues(v),
                performance |-> mapPerformanceIssues(v),
                testScenarios |-> mapTestScenarios(v),
                testCases |-> mapTestCases(v),
                recommendations |-> mapRecommendations(v)]
  /\ UNCHANGED <<serviceVars, call>>

\* ---- AzureOpenAIService.estimateTokens / ensureWithinLimit
\* the characters of a diff
DiffChars == {"+", "-"}

\* the texts ensureWithinLimit is evaluated on
Texts == UNION { [1..n -> DiffChars] : n \in 0..MaxTextLen }

\* the token budgets ensureWithinLimit is evaluated with
Budgets == 0..MaxBudget

\* '\n... (truncated due to length)', character by character
TruncationMarker ==
  << "\n", ".", ".", ".", " ", "(", "t", "r", "u", "n", "c", "a", "t", "e", "d", " ",
     "d", "u", "e", " ", "t", "o", " ", "l", "e", "n", "g", "t", "h", ")" >>

\* estimateTokens rounding down
estimateTokensFloor(text) == Len(text) \div 4

\* AzureOpenAIService.estimateTokens: Math.ceil(text.length / 4)
estimateTokens(text) == (Len(text) + 3) \div 4

\* String.prototype.substring(0, n)
Substring0(text, n) == SubSeq(text, 1, IF n < Len(text) THEN n ELSE Len(text))

\* AzureOpenAIService.ensureWithinLimit
ensureWithinLimit(text, maxTokens) ==
  IF estimateTokens(text) <= maxTokens THEN text
  ELSE Substring0(text, maxTokens * 4) \o TruncationMarker

EnsureWithinLimitCalls ==
  { [fn |-> "ensureWithinLimit", text |-> t, maxTokens |-> b] : t \in Texts, b \in Budgets }

\* ensureWithinLimit(text, maxTokens) returns
EvalEnsureWithinLimit ==
  /\ call.fn = "ensureWithinLimit"
  /\ ~ret.returned
  /\ ret' = [returned |-> TRUE, applications |-> 1, previous |-> call.text,
             value |-> ensureWithinLimit(call.text, call.maxTokens)]
  /\ UNCHANGED <<serviceVars, call>>

\* ensureWithinLimit is applied to its own result, with the same budget
EvalEnsureWithinLimitAgain ==
  /\ call.fn = "ensureWithinLimit"
  /\ ret.returned
  /\ ret.applications = 1
  /\ ret' = [returned |-> TRUE, applications |-> 2, previous |-> ret.value,
             value |-> ensureWithinLimit(ret.value, call.maxTokens)]
  /\ UNCHANGED <<serviceVars, call>>

\* ---- AnalysisService.detectSchemaChanges
\* file names, as the pieces the three tests of the code can tell apart
FileNames ==
  { <<"002_add_index.", "migration", ".ts">>, <<"db/", "schema", ".rb">>,
    <<"init", ".sql">>, <<"README", ".md">>, <<"Migration", ".ts">>,
    <<"dump", ".sql", ".bak">>, <<"backup", ".SQL">> }

FileStatuses == {"added", "modified", "removed", "renamed"}

Patches ==
  { <<>>, <<"DROP", " TABLE users;">>, <<"drop", " index i;">>, <<"-- ", "Drop", " it">>,
    <<"ALTER TABLE users;">> }

\* the GitHubFile values of prData.files
Files == [filename : FileNames, status : FileStatuses, patch : Patches]

\* the file lists detectSchemaChanges is evaluated on
FileLists == UNION { [1..n -> Files] : n \in 0..MaxFiles }

\* String.prototype.toLowerCase on a piece of text
ToLowerCase(piece) == IF piece \in {"DROP", "Drop"} THEN "drop" ELSE piece

\* String.prototype.includes
Includes(text, piece) == \E i \in 1..Len(text) : text[i] = piece

\* String.prototype.endsWith
EndsWith(text, piece) == text # <<>> /\ text[Len(text)] = piece

\* the condition of detectSchemaChanges with the name lower-cased first
IsSchemaFileAnyCase(file) ==
  LET lower == [i \in 1..Len(file.filename) |->
                  IF file.filename[i] = "Migration" THEN "migration"
                  ELSE IF file.filename[i] = ".SQL" THEN ".sql"
                  ELSE file.filename[i]]
  IN \/ Includes(lower, "migration")
     \/ Includes(lower, "schema")
     \/ EndsWith(lower, ".sql")

\* the condition of detectSchemaChanges
IsSchemaFile(file) ==
  \/ Includes(file.filename, "migration")
  \/ Includes(file.filename, "schema")
  \/ EndsWith(file.filename, ".sql")

\* the SchemaChange pushed for a file
SchemaChange(file) ==
  [type |-> "migration",
   action |-> IF file.status = "added" THEN "add" ELSE "modify",
   entity |-> file.filename,
   sqlScript |-> file.patch,
   breakingChange |->
     Includes([i \in 1..Len(file.patch) |-> ToLowerCase(file.patch[i])], "drop")]

\* AnalysisService.detectSchemaChanges
detectSchemaChanges(files) ==
  LET flagged == SelectSeq(files, IsSchemaFile)
  IN [i \in 1..Len(flagged) |-> SchemaChange(flagged[i])]

DetectSchemaChangesCalls == { [fn |-> "detectSchemaChanges", files |-> fs] : fs \in FileLists }

\* detectSchemaChanges(prData) returns
EvalDetectSchemaChanges ==
  /\ call.fn = "detectSchemaChanges"
  /\ ~ret.returned
  /\ ret' = Returned(detectSchemaChanges(call.files))
  /\ UNCHANGED <<serviceVars, call>>

\* ---- AnalysisService.calculateImpact
\* calculateImpact with inclusive thresholds
calculateImpactInclusive(changes) ==
  IF changes >= 500 THEN "major"
  ELSE IF changes >= 100 THEN "minor"
  ELSE "patch"

\* AnalysisService.calculateImpact, on file.changes
calculateImpact(changes) ==
  IF changes > 500 THEN "major"
  ELSE IF changes > 100 THEN "minor"
  ELSE "patch"

CalculateImpactCalls == { [fn |-> "calculateImpact", changes |-> n] : n \in 0..MaxChanges }

\* calculateImpact(file) returns
EvalCalculateImpact ==
  /\ call.fn = "calculateImpact"
  /\ ~ret.returned
  /\ ret' = Returned(calculateImpact(call.changes))
  /\ UNCHANGED <<serviceVars, call>>

\* ---- AzureOpenAIService.handleError
\* the failures handleError is evaluated on: HTTP status (0: none), the
\* provider's code and message, the Retry-After header
AIErrorInputs ==
  [status : {0, 400, 401, 404, 429, 500},
   azureCode : {Undef, "DeploymentNotFound", "content_filter"},
   azureMessage : {<<>>, <<"The response was filtered">>},
   retryAfter : {Undef, "30"}]

\* the AIError of handleError, retryAfter included
handleError(error) ==
  LET e == AIHandleError(error)
  IN [code |-> e.code, message |-> e.message, statusCode |-> e.statusCode,
      retryAfter |-> error.retryAfter]

HandleErrorCalls == { [fn |-> "handleError", error |-> e] : e \in AIErrorInputs }

\* handleError(error) returns throwError(() => aiError)
EvalHandleError ==
  /\ call.fn = "handleError"
  /\ ~ret.returned
  /\ ret' = [returned |-> TRUE, thrown |-> TRUE, value |-> handleError(call.error)]
  /\ UNCHANGED <<serviceVars, call>>

\* ---- AzureOpenAIService.analyzePR / generateTests up to the request
\* the endpoints setConfig is given
EndpointInputs ==
  { <<>>, EndpointGood, EndpointPath, EndpointBad, EndpointGood \o <<"/">>,
    <<"http://", "acme", ".openai.azure.com">>, <<"/">> }

\* the configurations setConfig is given before the call
ConfigInputs ==
  { MkConfig(k, e, d) : k \in {"", "key"}, e \in EndpointInputs, d \in {"", "gpt"} }

ProviderCalls ==
  { [fn |-> f, given |-> c] : f \in {"analyzePR", "generateTests"}, c \in ConfigInputs }

\* setConfig(given), then analyzePR(request) or generateTests(diff, context),
\* up to the point where the request is sent or the error returned
EvalProviderCall ==
  /\ call.fn \in {"analyzePR", "generateTests"}
  /\ ~ret.returned
  /\ LET stored == StoredConfig(call.given)
         out    == IF call.fn = "analyzePR" THEN analyzePR(stored) ELSE generateTests(stored)
     IN ret' = [returned |-> TRUE, stored |-> stored, sent |-> out.sent, error |-> out.error]
  /\ UNCHANGED <<serviceVars, call>>

\* ---- the library functions, each on one argument
LibCalls ==
  ParsePRUrlCalls \cup MapResponseCalls \cup EnsureWithinLimitCalls \cup
  DetectSchemaChangesCalls \cup CalculateImpactCalls \cup HandleErrorCalls \cup
  ProviderCalls \cup MapCollectionsCalls

LibInit ==
  /\ ServiceInit
  /\ call \in LibCalls
  /\ ret = NoReturn

LibNext ==
  \/ EvalParsePRUrl
  \/ EvalMapResponse
  \/ EvalEnsureWithinLimit
  \/ EvalEnsureWithinLimitAgain
  \/ EvalDetectSchemaChanges
  \/ EvalCalculateImpact
  \/ EvalHandleError
  \/ EvalProviderCall
  \/ EvalMapCollections

SpecLib == LibInit /\ [][LibNext]_vars

\* ------------------------------------------------------------- properties
\* <<status, progress>> of the values invocation r has written, in order
Trace(r) == [i \in 1..Len(writes[r]) |-> <<writes[r][i].status, writes[r][i].progress>>]

\* the last value invocation r has written
LastWrite(r) == writes[r][Len(writes[r])]

\* the value before the last one
PrevWrite(r) == writes[r][Len(writes[r]) - 1]

Errored(r) == stage[r] \in {"rejected", "failed"}

\* C1 as stated: a successful invocation writes analyzing(10), analyzing(30),
\* analyzing(50), analyzing(75), completed(100) after the initial pending(0)
\* and nothing else.
C1_AsStated ==
  \A r \in Runs :
    stage[r] = "completed" =>
      Trace(r) = << <<"analyzing", 10>>, <<"analyzing", 30>>, <<"analyzing", 50>>,
                    <<"analyzing", 75>>, <<"completed", 100>> >>

\* C1 (amended): the status starts as pending(0), and an invocation that emits
\* its result has written exactly analyzing(0), analyzing(10), analyzing(30),
\* analyzing(50), analyzing(75), completed(100), in this order.
C1_SuccessSequence ==
  /\ (\A r \in Runs : writes[r] = <<>>) => status = InitialStatus
  /\ \A r \in Runs :
       stage[r] = "completed" =>
         Trace(r) = << <<"analyzing", 0>>, <<"analyzing", 10>>, <<"analyzing", 30>>,
                       <<"analyzing", 50>>, <<"analyzing", 75>>, <<"completed", 100>> >>

C1_Witness == \E r \in Runs : stage[r] = "completed" /\ result[r].present

\* C2 as stated: the progress values an invocation writes never decrease,
\* the failure update included.
C2_AsStated ==
  \A r \in Runs : \A i \in 1..Len(writes[r]) : \A j \in 1..Len(writes[r]) :
    i < j => writes[r][i].progress <= writes[r][j].progress

\* C2 (amended): the progress values an invocation writes never decrease up to
\* the failure update; the failure update is the last one and writes progress 0.
C2_MonotoneUntilFailure ==
  \A r \in Runs : \A j \in 1..Len(writes[r]) :
    IF writes[r][j].status = "failed"
      THEN writes[r][j].progress = 0 /\ j = Len(writes[r])
      ELSE \A i \in 1..j : writes[r][i].progress <= writes[r][j].progress

C2_Witness ==
  \E r \in Runs : /\ stage[r] = "failed"
                  /\ Len(writes[r]) >= 5
                  /\ LastWrite(r).progress < PrevWrite(r).progress

\* C3: whenever the Test Generator call fails (the earlier stages having
\* succeeded, the invocation being at the test stage), the invocation emits a
\* result with no test cases, the status becomes completed and the invocation
\* never writes failed.
C3_AsStated ==
  [][\A r \in Runs :
       (\/ \E e \in AIFailures : TestsFail(r, e)
        \/ \E c \in TestContents : TestsOk(r, c) /\ ~parseTestResponse(c).ok
        \/ \E c \in AIContents : /\ ReviewOk(r, c)
                                  /\ parseAnalysisResponse(c).ok
                                  /\ ~validateConfig(config).valid) =>
         /\ stage'[r] = "completed"
         /\ result'[r].present
         /\ result'[r].testCases = <<>>
         /\ status'.status = "completed"
         /\ \A i \in 1..Len(writes'[r]) : writes'[r][i].status # "failed"]_vars

\* the stage an invocation failed in, read from the checkpoint before the failure
FailedAfter(r, p) ==
  /\ stage[r] = "failed"
  /\ Len(writes[r]) >= 2
  /\ PrevWrite(r).progress = p

\* C4: when the PR fetch, the context load or the AI review fails, the status
\* becomes failed with the error's code and message (ANALYSIS_ERROR and
\* 'Analysis failed' when absent), no later stage is started and the
\* subscriber gets that same error.
C4_StageFailure ==
  /\ [](\A r \in Runs :
          (FailedAfter(r, 10) \/ FailedAfter(r, 30) \/ FailedAfter(r, 50)) =>
            /\ LastWrite(r).status = "failed"
            /\ failure[r] # NoFailure
            /\ LastWrite(r).error =
                 AnalysisError(IF failure[r].code \in {Undef, ""} THEN "ANALYSIS_ERROR"
                               ELSE failure[r].code,
                               IF failure[r].message = <<>> THEN <<"Analysis failed">>
                               ELSE failure[r].message)
            /\ result[r] = NoResult
            /\ issued[r]["tests"] = 0
            /\ FailedAfter(r, 10) => issued[r]["context"] = 0 /\ issued[r]["review"] = 0
            /\ FailedAfter(r, 30) => issued[r]["review"] = 0)
  /\ [][\A r \in Runs :
          /\ (\E k \in FetchKinds, e \in GitHubFailures : FetchFail(r, k, e))
               => stage'[r] = "failed" /\ status' = LastWrite(r)' /\ failure'[r].statusCode # 0
          /\ (\E e \in GitHubFailures : ContextFail(r, e))
               => stage'[r] = "failed" /\ status' = LastWrite(r)' /\ failure'[r].statusCode # 0
          /\ (\E e \in AIFailures : ReviewFail(r, e))
               => stage'[r] = "failed" /\ status' = LastWrite(r)' /\ failure'[r].statusCode # 0
          /\ (stage[r] # "failed" /\ stage'[r] = "failed")
               => status'.status = "failed" /\ status'.error # NoError]_vars

C4_Witness ==
  \E r \in Runs : /\ FailedAfter(r, 30)
                  /\ failure[r].code = Undef
                  /\ status.status = "failed"
                  /\ status.error.code = "ANALYSIS_ERROR"

\* C5: whenever the observable of an invocation fails, a precondition failure
\* included, the status is failed and carries the code and message of that error.
C5_AsStated ==
  [][\A r \in Runs :
       (~Errored(r) /\ Errored(r)') =>
          /\ status'.status = "failed"
          /\ status'.error.code = OrCode(failure'[r].code, "ANALYSIS_ERROR")
          /\ status'.error.message = OrMessage(failure'[r].message, <<"Analysis failed">>)]_vars

\* C6: an invocation without a token fails with MISSING_TOKEN, one with a
\* token and a URL that is not a PR URL with INVALID_URL, and such an
\* invocation issues no network call at all.
C6_PreconditionFailure ==
  /\ [](\A r \in Runs :
          stage[r] \in {"coldError", "rejected"} =>
            /\ \A k \in CallKinds : issued[r][k] = 0
            /\ writes[r] = <<>>
            /\ failure[r].code \in {"MISSING_TOKEN", "INVALID_URL"})
  /\ [][\A r \in Runs : \A u \in PRUrls :
          analyzePullRequest(r, u) =>
            /\ githubToken = "" => stage'[r] = "coldError" /\ failure'[r].code = "MISSING_TOKEN"
            /\ (githubToken # "" /\ ~isValidPRUrl(u))
                 => stage'[r] = "coldError" /\ failure'[r].code = "INVALID_URL"
            /\ (githubToken # "" /\ isValidPRUrl(u)) => stage'[r] = "cold"]_vars

C6_Witness ==
  /\ \E r \in Runs : stage[r] = "rejected" /\ failure[r].code = "INVALID_URL"
  /\ \E r \in Runs : stage[r] = "rejected" /\ failure[r].code = "MISSING_TOKEN"

\* invocation r failed in the PR fetch with HTTP status sc
GatewayFailed(r, sc) ==
  /\ FailedAfter(r, 10)
  /\ failure[r].statusCode = sc

\* C7 as stated: a not-found failure and an authentication failure of the PR
\* Data Gateway leave different error codes in the status.
C7_AsStated ==
  \A r \in Runs : \A q \in Runs :
    (GatewayFailed(r, 404) /\ GatewayFailed(q, 401)) =>
       LastWrite(r).error.code # LastWrite(q).error.code

\* C7 (amended): both failures leave the status failed with the same code
\* GITHUB_API_ERROR; it is the message that tells them apart.
C7_SameCodeDistinctMessage ==
  \A r \in Runs : \A q \in Runs :
    (GatewayFailed(r, 404) /\ GatewayFailed(q, 401)) =>
       /\ LastWrite(r).status = "failed"
       /\ LastWrite(q).status = "failed"
       /\ LastWrite(r).error.code = "GITHUB_API_ERROR"
       /\ LastWrite(q).error.code = "GITHUB_API_ERROR"
       /\ LastWrite(r).error.message # LastWrite(q).error.message

C7_Witness == \E r \in Runs : \E q \in Runs : GatewayFailed(r, 404) /\ GatewayFailed(q, 401)

\* invocation r enters the AI review stage in this step (performAIAnalysis runs)
EntersReview(r) ==
  \E i \in (Len(writes[r]) + 1)..Len(writes'[r]) : writes'[r][i].progress = 50

\* C8 as stated: an invocation that fails on an incomplete provider
\* configuration has issued no network request at all.
C8_AsStated ==
  \A r \in Runs :
    (stage[r] = "failed" /\ failure[r].code = "INVALID_CONFIG") =>
       \A k \in CallKinds : issued[r][k] = 0

\* C8 (amended): the provider configuration is checked when the AI review stage
\* starts: the invocation then fails with INVALID_CONFIG having sent the three
\* PR requests and no request to the provider, and a request to the provider
\* is only ever sent under a configuration that passes validateConfig.
C8_ConfigCheckedAtReview ==
  /\ [](\A r \in Runs :
          (stage[r] = "failed" /\ failure[r].code = "INVALID_CONFIG") =>
             /\ FailedAfter(r, 50)
             /\ \A k \in FetchKinds : issued[r][k] = 1
             /\ issued[r]["review"] = 0
             /\ issued[r]["tests"] = 0)
  /\ [][\A r \in Runs :
          /\ (issued'[r]["review"] # issued[r]["review"] \/ issued'[r]["tests"] # issued[r]["tests"])
               => validateConfig(config).valid
          /\ (EntersReview(r) /\ ~validateConfig(config).valid)
               => stage'[r] = "failed" /\ failure'[r].code = "INVALID_CONFIG"
          /\ (EntersReview(r) /\ validateConfig(config).valid)
               => stage'[r] = "review" /\ issued'[r]["review"] = issued[r]["review"] + 1]_vars

C8_Witness ==
  \E r \in Runs : /\ stage[r] = "failed"
                  /\ failure[r].code = "INVALID_CONFIG"
                  /\ issued[r]["pr"] = 1

\* C9: every invocation made after an invocation has ended in failed or
\* completed resets the status: not terminal, low progress, no error and the
\* step label of the new invocation.
C9_AsStated ==
  [][\A r \in Runs : \A u \in PRUrls :
       (analyzePullRequest(r, u) /\ \E q \in Runs : stage[q] \in {"failed", "completed"}) =>
          /\ status'.status \in {"pending", "analyzing"}
          /\ status'.progress <= 10
          /\ status'.error = NoError
          /\ status'.currentStep \in {Undef, "Fetching PR data..."}]_vars

\* the status an invocation in the given stage has last written
StageStatus(st) ==
  IF st \in {"cold", "fetch"} THEN updateStatus("analyzing", 10, "Fetching PR data...", NoError)
  ELSE IF st = "context" THEN updateStatus("analyzing", 30, "Loading coding standards...", NoError)
  ELSE IF st = "review" THEN updateStatus("analyzing", 50, "Analyzing code with AI...", NoError)
  ELSE updateStatus("analyzing", 75, "Generating test cases...", NoError)

\* C10: as long as no invocation was started while another was in flight, the
\* status is that of the stage of the invocation in flight; an invocation is
\* never refused or delayed because another is in flight, and starting one
\* leaves the others as they are.
C10_SingleRunConsistency ==
  /\ [](~overlapped => \A r \in Runs : InFlight(r) => status = StageStatus(stage[r]))
  /\ [][\A r \in Runs : \A u \in PRUrls :
          analyzePullRequest(r, u) =>
            \A q \in Runs \ {r} :
              /\ stage'[q] = stage[q]
              /\ issued'[q] = issued[q]
              /\ fetchPending'[q] = fetchPending[q]]_vars

\* with two overlapping invocations: the status reads failed with progress 0
\* while the other invocation is in flight and has reported more
C10_Witness ==
  \E r \in Runs : \E q \in Runs :
    /\ InFlight(r)
    /\ stage[q] = "failed"
    /\ status = LastWrite(q)
    /\ status.progress < LastWrite(r).progress

\* the checkpoints of a whole run, in the order of the pipe
Checkpoints ==
  << <<"analyzing", 0>>, <<"analyzing", 10>>, <<"analyzing", 30>>, <<"analyzing", 50>>,
     <<"analyzing", 75>>, <<"completed", 100>> >>

\* the values invocation r has written, the failure update left out
Progressed(r) ==
  IF writes[r] # <<>> /\ LastWrite(r).status = "failed"
    THEN SubSeq(Trace(r), 1, Len(writes[r]) - 1)
    ELSE Trace(r)

IsPrefix(s, t) == Len(s) <= Len(t) /\ s = SubSeq(t, 1, Len(s))

\* invocation r sends a request of kind k in this step
Issues(r, k) == issued'[r][k] # issued[r][k]

\* C11: the stages of an invocation start in the order fetch, context, review,
\* tests, format; a stage starts in the step in which its predecessor delivers
\* its result, never earlier, and the test-generation request is never in
\* flight while the review request is.
C11_StageOrder ==
  /\ [](\A r \in Runs :
          /\ IsPrefix(Progressed(r), Checkpoints)
          /\ issued[r]["context"] > 0 => stage[r] \notin {"cold", "fetch"}
          /\ issued[r]["review"] > 0 => stage[r] \notin {"cold", "fetch", "context"}
          /\ issued[r]["tests"] > 0 => stage[r] \notin {"cold", "fetch", "context", "review"}
          /\ stage[r] = "tests" => aiResult[r] # NoAIResult)
  /\ [][\A r \in Runs :
          /\ Issues(r, "context") => \E k \in FetchKinds : FetchOk(r, k) /\ fetchPending[r] = {k}
          /\ Issues(r, "review") =>
                \/ ContextOk(r)
                \/ \E k \in FetchKinds : FetchOk(r, k) /\ fetchPending[r] = {k} /\ modelRepoUrl = <<>>
          /\ Issues(r, "tests") =>
                \E c \in AIContents : ReviewOk(r, c) /\ parseAnalysisResponse(c).ok
          /\ (stage[r] # "completed" /\ stage'[r] = "completed") =>
                \/ stage[r] = "tests"
                \/ stage[r] = "review" /\ ~validateConfig(config).valid]_vars

C11_Witness ==
  \E r \in Runs : stage[r] = "completed" /\ \A k \in CallKinds : issued[r][k] = 1

\* invocation r has started the load-context stage
ContextStarted(r) == \E i \in 1..Len(writes[r]) : writes[r][i].progress = 30

\* C12: the three PR requests are sent in one step; the load-context stage
\* starts only when all three have answered, the PullRequest passed on holds
\* all three answers, and the failure of any one fails the invocation at once.
C12_FetchJoin ==
  /\ [](\A r \in Runs :
          /\ \A k \in FetchKinds : issued[r][k] = issued[r]["pr"]
          /\ prData[r] \in {{}, FetchKinds}
          /\ (ContextStarted(r) \/ stage[r] \in {"context", "review", "tests", "completed"}) =>
                /\ prData[r] = FetchKinds
                /\ fetchPending[r] = {}
                /\ \A k \in FetchKinds : issued[r][k] = 1)
  /\ [][\A r \in Runs :
          /\ (Subscribe(r) /\ stage[r] = "cold") =>
                /\ \A k \in FetchKinds : Issues(r, k)
                /\ fetchPending'[r] = FetchKinds
          /\ \A k \in FetchKinds :
                (FetchOk(r, k) /\ fetchPending[r] # {k}) =>
                   /\ stage'[r] = "fetch"
                   /\ writes'[r] = writes[r]
                   /\ prData'[r] = {}
          /\ (\E k \in FetchKinds, e \in GitHubFailures : FetchFail(r, k, e)) =>
                /\ stage'[r] = "failed"
                /\ prData'[r] = {}
                /\ ~ContextStarted(r)'
                /\ issued'[r]["context"] = 0]_vars

C12_Witness ==
  \E r \in Runs : \E q \in Runs :
    /\ stage[r] = "context"
    /\ prData[r] = FetchKinds
    /\ FailedAfter(q, 10)
    /\ prData[q] = {}

C14_AsStated ==
  \A r \in Runs : \A q \in Runs :
    (r # q /\ result[r].present /\ result[q].present) =>
       /\ result[r].id # result[q].id
       /\ result[r].timestamp # result[q].timestamp

\* the string is a PR URL and nothing else: an optional scheme, then
\* <host>/<owner>/<repo>/pull/<integer> up to the end of the string
ExactForm(url) ==
  LET v == IF url # <<>> /\ url[1] = "https://" THEN Tail(url) ELSE url
  IN /\ Len(v) = 9
     /\ \A i \in {1, 3, 5} : v[i] \notin {"/", "https://", "?next="}
     /\ \A i \in {2, 4, 6, 8} : v[i] = "/"
     /\ v[7] = "pull"
     /\ v[9] \in Digits

\* C15: for every string that is not exactly <host>/<owner>/<repo>/pull/<integer>
\* parsePRUrl returns the absence value and isValidPRUrl returns false.
C15_AsStated ==
  (call.fn = "parsePRUrl" /\ ret.returned /\ ~ExactForm(call.url)) =>
     /\ ret.value = NoMatch
     /\ ~ret.valid

\* the element the response holds in array f
ElemOf(f) == call.content[f].elems[1]

\* a mapped field against the field of the element: a missing field gets the
\* fallback, and so does an empty one when emptyIsMissing; any other is kept
FieldOk(orig, mapped, fallback, emptyIsMissing) ==
  IF orig = Undef \/ (emptyIsMissing /\ orig = "") THEN mapped = fallback ELSE mapped = orig

\* the parsed response is total and every mapped field satisfies FieldOk
MappedWith(emptyIsMissing) ==
  /\ \A f \in ArrayFields :
        /\ ret.parsed[f].kind = "array"
        /\ call.content[f] = Absent => ret.parsed[f] = EmptyArray
        /\ call.content[f] # Absent => ret.parsed[f] = call.content[f]
  /\ Len(ret.suggestions) = Len(ret.parsed.suggestions.elems)
  /\ Len(ret.security) = Len(ret.parsed.security.elems)
  /\ Len(ret.performance) = Len(ret.parsed.performance.elems)
  /\ Len(ret.recommendations) = Len(ret.parsed.recommendations.elems)
  /\ Len(ret.testScenarios) = Len(ret.parsed.tests.elems)
  /\ \A i \in 1..Len(ret.suggestions) :
        /\ FieldOk(ElemOf("suggestions").severity, ret.suggestions[i].severity, "info", emptyIsMissing)
        /\ FieldOk(ElemOf("suggestions").category, ret.suggestions[i].category, "best-practice", emptyIsMissing)
  /\ \A i \in 1..Len(ret.security) :
        FieldOk(ElemOf("security").severity, ret.security[i].severity, "medium", emptyIsMissing)
  /\ \A i \in 1..Len(ret.performance) :
        FieldOk(ElemOf("performance").impact, ret.performance[i].impact, "medium", emptyIsMissing)
  /\ \A i \in 1..Len(ret.recommendations) :
        /\ FieldOk(ElemOf("recommendations").category, ret.recommendations[i].category, "maintainability", emptyIsMissing)
        /\ FieldOk(ElemOf("recommendations").priority, ret.recommendations[i].priority, "medium", emptyIsMissing)
  /\ \A i \in 1..Len(ret.testScenarios) :
        /\ FieldOk(ElemOf("tests").priority, ret.testScenarios[i].priority, "medium", emptyIsMissing)
        /\ FieldOk(ElemOf("tests").category, ret.testScenarios[i].category, "functional", emptyIsMissing)

\* C16 as stated: a missing array is parsed to the empty list, a mapped
\* element lacking a field gets the fallback value, and a field that is
\* present is kept unchanged.
C16_AsStated ==
  (call.fn = "mapResponse" /\ ret.returned) => MappedWith(FALSE)

\* C16 (amended): a missing array is parsed to the empty list, a mapped
\* element whose field is missing or empty gets the fallback value, and a
\* field with a non-empty value is kept unchanged.
C16_TotalWithFallbacks ==
  (call.fn = "mapResponse" /\ ret.returned) => MappedWith(TRUE)

C16_Witness ==
  /\ call.fn = "mapResponse"
  /\ ret.returned
  /\ call.content.suggestions = Absent
  /\ ret.parsed.suggestions = EmptyArray
  /\ Len(ret.security) = 1
  /\ ElemOf("security").severity = ""
  /\ ret.security[1].severity = "medium"
  /\ Len(ret.testScenarios) = 1
  /\ ElemOf("tests").category = Undef
  /\ ret.testScenarios[1].category = "functional"
  /\ ret.testScenarios[1].priority = "low"

\* the least q with 4q >= n
CeilDiv4(n) == CHOOSE q \in 0..n : 4 * q >= n /\ 4 * (q - 1) < n

\* C17: a text of length L with ceil(L/4) <= B is returned unchanged; one with
\* ceil(L/4) > B comes back as its first 4*B characters followed by the marker,
\* of length 4*B plus the marker's; truncating the result again changes nothing.
C17_TruncationIdempotent ==
  (call.fn = "ensureWithinLimit" /\ ret.returned) =>
    LET L     == Len(call.text)
        B     == call.maxTokens
        first == IF ret.applications = 1 THEN ret.value ELSE ret.previous
    IN /\ CeilDiv4(L) <= B => first = call.text
       /\ CeilDiv4(L) > B =>
            /\ first = SubSeq(call.text, 1, 4 * B) \o TruncationMarker
            /\ Len(first) = 4 * B + Len(TruncationMarker)
       /\ ret.applications = 2 => ret.value = ret.previous

C17_Witness ==
  /\ call.fn = "ensureWithinLimit"
  /\ ret.returned
  /\ ret.applications = 2
  /\ call.maxTokens >= 1
  /\ Len(call.text) > 4 * call.maxTokens
  /\ Len(ret.value) = 4 * call.maxTokens + Len(TruncationMarker)

\* the three filename conditions, read off the pieces of the name
NameFlagged(file) ==
  \/ \E i \in 1..Len(file.filename) : file.filename[i] \in {"migration", "schema"}
  \/ file.filename[Len(file.filename)] = ".sql"

\* C18: a file is flagged iff its name contains 'migration' or 'schema' or ends
\* with '.sql'; a flagged file has action add iff its status is added, modify
\* otherwise, breakingChange iff its patch contains 'drop' in any case;
\* README.md is never flagged.
C18_SchemaDetection ==
  (call.fn = "detectSchemaChanges" /\ ret.returned) =>
    LET fs  == call.files
        out == ret.value
    IN /\ Len(out) = Cardinality({i \in 1..Len(fs) : NameFlagged(fs[i])})
       /\ \A i \in 1..Len(fs) :
            NameFlagged(fs[i]) <=>
              \E j \in 1..Len(out) : /\ out[j].entity = fs[i].filename
                                      /\ out[j].sqlScript = fs[i].patch
       /\ \A j \in 1..Len(out) :
            \E i \in 1..Len(fs) :
              /\ NameFlagged(fs[i])
              /\ out[j].entity = fs[i].filename
              /\ out[j].sqlScript = fs[i].patch
              /\ out[j].action = (IF fs[i].status = "added" THEN "add" ELSE "modify")
              /\ out[j].breakingChange <=>
                   \E k \in 1..Len(fs[i].patch) : fs[i].patch[k] \in {"drop", "DROP", "Drop"}
       /\ \A j \in 1..Len(out) : out[j].entity # <<"README", ".md">>

C18_Witness ==
  /\ call.fn = "detectSchemaChanges"
  /\ ret.returned
  /\ Len(ret.value) = 1
  /\ call.files[1].filename = <<"002_add_index.", "migration", ".ts">>
  /\ call.files[1].status = "modified"
  /\ call.files[1].patch = <<"DROP", " TABLE users;">>
  /\ ret.value[1].action = "modify"
  /\ ret.value[1].breakingChange

\* C19: major iff n > 500, minor iff 100 < n <= 500, patch iff n <= 100;
\* 100 is patch, 101 minor, 500 minor, 501 major.
C19_ImpactThresholds ==
  (call.fn = "calculateImpact" /\ ret.returned) =>
    LET n == call.changes
    IN /\ ret.value = "major" <=> n > 500
       /\ ret.value = "minor" <=> (100 < n /\ n <= 500)
       /\ ret.value = "patch" <=> n <= 100
       /\ n = 100 => ret.value = "patch"
       /\ n = 101 => ret.value = "minor"
       /\ n = 500 => ret.value = "minor"
       /\ n = 501 => ret.value = "major"

C19_Witness ==
  /\ call.fn = "calculateImpact"
  /\ ret.returned
  /\ call.changes = 500
  /\ ret.value = "minor"

\* the category of an error code of handleError
Category(code) ==
  IF code \in {"DEPLOYMENT_NOT_FOUND", "UNAUTHORIZED", "RATE_LIMIT", "BAD_REQUEST"}
    THEN code ELSE "catch-all"

WellFormed(st) ==
  /\ st.status \in {"pending", "analyzing", "completed", "failed"}
  /\ st.progress \in 0..100
  /\ (st.error # NoError) <=> (st.status = "failed")
  /\ st.status = "completed" => st.progress = 100
  /\ st.status = "failed" => st.progress = 0
  /\ st.status = "analyzing" => st.progress \in {0, 10, 30, 50, 75}

\* C30: in every reachable state the status record is well-formed (a known
\* status, progress in 0..100, an error exactly when failed, 100 when
\* completed, 0 when failed, a checkpoint when analyzing), and so is every
\* value an invocation has set; pending is only the value the status was
\* constructed with, before any invocation has passed validation.
C30_StatusWellFormed ==
  /\ WellFormed(status)
  /\ \A r \in Runs : \A i \in 1..Len(writes[r]) :
       WellFormed(writes[r][i]) /\ writes[r][i].status # "pending"
  /\ status.status = "pending" <=> \A r \in Runs : writes[r] = <<>>
  /\ status.status = "pending" => status = InitialStatus

\* a failed status with its error is shown while another invocation has
\* completed
C30_Witness ==
  /\ status.status = "failed"
  /\ status.error # NoError
  /\ \E r \in Runs : stage[r] = "completed"

\* C25 as stated: an invocation that has set the status to completed(100)
\* emits its AnalysisResult and never sets the status to failed afterwards,
\* whatever the parsed payloads hold.
C25_AsStated ==
  \A r \in Runs : \A i \in 1..Len(writes[r]) :
    writes[r][i].status = "completed" =>
      /\ result[r].present
      /\ \A j \in (i + 1)..Len(writes[r]) : writes[r][j].status # "failed"

\* invocation r starts its load-context stage in this step
EntersContext(r) ==
  \E i \in (Len(writes[r]) + 1)..Len(writes'[r]) : writes'[r][i].progress = 30

\* C22: when no model repository URL is set, the step that starts the
\* load-context stage sends no request, has the context of three empty
\* strings at once, does not fail on the context and starts the AI review
\* stage in the same step.
C22_NoRepoNoRequest ==
  [][\A r \in Runs :
       (EntersContext(r) /\ modelRepoUrl = <<>>) =>
         /\ ~Issues(r, "context")
         /\ issued'[r]["context"] = 0
         /\ stage'[r] # "context"
         /\ context'[r] = EmptyContext
         /\ context'[r].codingStandards = ""
         /\ context'[r].architecturePatterns = ""
         /\ context'[r].testingGuidelines = ""
         /\ EntersReview(r)
         /\ (stage'[r] = "failed" => failure'[r].code = "INVALID_CONFIG")]_vars

\* an invocation is in its review stage with the empty context and has sent
\* no repository-contents request
C22_Witness ==
  \E r \in Runs :
    /\ stage[r] = "review"
    /\ context[r] = EmptyContext
    /\ issued[r]["context"] = 0

\* the content is a JSON object holding all five arrays
ExpectedShape(c) ==
  /\ c.kind = "object"
  /\ \A f \in ArrayFields : c[f].kind = "array"

\* the AI Reviewer has answered invocation r
Answered(r) == reviewContent[r].kind # "none"

\* the invocation failed in its review stage: no test generation, no result
FailedInReview(r) ==
  /\ stage[r] = "failed"
  /\ LastWrite(r).status = "failed"
  /\ PrevWrite(r).progress = 50
  /\ issued[r]["tests"] = 0
  /\ ~result[r].present

\* C23 as stated: an answer whose content is not valid JSON or lacks the
\* expected shape fails the invocation in the review stage, without test
\* generation and without a result.
C23_AsStated ==
  \A r \in Runs :
    (Answered(r) /\ ~ExpectedShape(reviewContent[r])) => FailedInReview(r)

\* C23: an answer whose content is empty, is not valid JSON or is the JSON
\* null fails the invocation in the review stage, without test generation and
\* without a result; any other content is accepted, whatever fields it lacks,
\* and the test-generation stage starts.
C23_ParseFailureIsHard ==
  \A r \in Runs :
    Answered(r) =>
      IF reviewContent[r].kind \in {"empty", "invalid", "null"}
        THEN FailedInReview(r)
        ELSE \E i \in 1..Len(writes[r]) : writes[r][i].progress = 75

\* an invocation has failed on an answer that is not valid JSON
C23_Witness ==
  \E r \in Runs :
    /\ reviewContent[r].kind = "invalid"
    /\ FailedInReview(r)

\* C27 as stated: the text ensureWithinLimit(text, B) returns is within the
\* budget, estimateTokens of it being at most B.
C27_AsStated ==
  (call.fn = "ensureWithinLimit" /\ ret.returned) =>
    estimateTokens(ret.value) <= call.maxTokens

\* https://<name>.openai.azure.com and nothing else
AzureForm(e) ==
  /\ Len(e) = 3
  /\ e[1] = "https://"
  /\ e[2] \notin {"", "/", "."}
  /\ e[3] = ".openai.azure.com"

\* the call was refused with the configuration error of the given message
Refused(msg) ==
  /\ ~ret.sent
  /\ ret.error.code = "INVALID_CONFIG"
  /\ SubSeq(ret.error.message, 1, 1) = <<msg>>

\* C21: analyzePR and generateTests test the stored configuration before
\* sending anything: a missing API key, a missing endpoint, a missing
\* deployment, an endpoint not of the form https://<name>.openai.azure.com are
\* tested in that order, the first test that fails refuses the call with its
\* own message and no request is sent; otherwise the request is sent.
C21_ValidateBeforeRequest ==
  (call.fn \in {"analyzePR", "generateTests"} /\ ret.returned) =>
    LET c == ret.stored
    IN IF c.apiKey = "" THEN Refused("API Key is missing!")
       ELSE IF c.endpoint = <<>> THEN Refused("Endpoint URL is missing!")
       ELSE IF c.deployment = "" THEN Refused("Deployment name is missing!")
       ELSE IF ~AzureForm(c.endpoint) THEN Refused("Invalid endpoint format!")
       ELSE ret.sent /\ ret.error = NoFailure

\* generateTests was refused for its endpoint, the key and the deployment
\* being there
C21_Witness ==
  /\ call.fn = "generateTests"
  /\ ret.returned
  /\ ret.stored.apiKey # ""
  /\ ret.stored.deployment # ""
  /\ ret.stored.endpoint = EndpointBad
  /\ Refused("Invalid endpoint format!")

\* the id prefix of each collection of the result
KindOf ==
  [suggestions |-> "suggestion", security |-> "security", performance |-> "performance",
   testScenarios |-> "scenario", testCases |-> "test", recommendations |-> "rec"]

\* the field of a mapped element that is copied from the element it was made of
CopiedField ==
  [suggestions |-> "severity", security |-> "severity", performance |-> "impact",
   testScenarios |-> "priority", testCases |-> "title", recommendations |-> "priority"]

\* C24: each of the six collections has the length of its input array, its
\* element at position i is made of the input element at position i and has
\* the id <kind>-i counted from 0, whatever id the provider supplied, so that
\* the ids of a collection are pairwise distinct.
C24_LocalIds ==
  (call.fn = "mapCollections" /\ ret.returned) =>
    \A c \in DOMAIN KindOf :
      /\ Len(ret[c]) = Len(call.elems)
      /\ \A i \in 1..Len(call.elems) :
           /\ ret[c][i].id = <<KindOf[c], i - 1>>
           /\ ret[c][i][CopiedField[c]] = call.elems[i].title
      /\ \A i, j \in 1..Len(ret[c]) : i # j => ret[c][i].id # ret[c][j].id

\* two elements that differ, the second one with an id of the provider, mapped
C24_Witness ==
  /\ call.fn = "mapCollections"
  /\ ret.returned
  /\ Len(call.elems) = 2
  /\ call.elems[1].title # call.elems[2].title
  /\ call.elems[2].id = <<"test", 7>>
  /\ ret.testCases[2].id = <<"test", 1>>

\* ConfigService.validateGitHubConfig's test of the model repository URL:
\* /^https:\/\/github\.com\/[a-zA-Z0-9-_]+\/[a-zA-Z0-9-_\.]+\/?$/
githubUrlPattern(url) ==
  /\ Len(url) \in {6, 7}
  /\ url[1] = "https://"
  /\ url[2] = "github.com"
  /\ url[3] = "/"
  /\ url[4] \notin {"", "/"}
  /\ url[5] = "/"
  /\ url[6] \notin {"", "/"}
  /\ Len(url) = 7 => url[7] = "/"

\* C26 as stated: with a model repository URL of the form the settings accept,
\* the step that starts the load-context stage sends the repository-contents
\* request and the stage waits for its answer instead of failing.
C26_AsStated ==
  [][\A r \in Runs :
       (EntersContext(r) /\ modelRepoUrl # <<>> /\ githubUrlPattern(modelRepoUrl)) =>
         /\ Issues(r, "context")
         /\ stage'[r] = "context"]_vars

\* ------------------------------------------------ the application around it
\* The settings dialog stores an AppConfig, the effect of PrInputComponent
\* hands it to the services, the component starts the analyses and the App
\* keeps the result emitted last.

MkAppConfig(ai, token, repoUrl) ==
  [present |-> TRUE, azureOpenAI |-> ai, github |-> [token |-> token, modelRepoUrl |-> repoUrl]]

\* ConfigService.isConfigured
isConfigured(cfg) ==
  /\ cfg.present
  /\ cfg.azureOpenAI.apiKey # ""
  /\ cfg.azureOpenAI.endpoint # <<>>
  /\ cfg.azureOpenAI.deployment # ""
  /\ cfg.github.token # ""

\* ConfigService.validateAzureConfig: TRUE when it returns null
validateAzureConfig(ai) ==
  /\ ai.apiKey # ""
  /\ ai.endpoint # <<>>
  /\ ai.endpoint[1] = "https://"
  /\ ai.deployment # ""

\* the tokens that start with ghp_ or github_pat_
PrefixedTokens == {"ghp_t"}

\* ConfigService.validateGitHubConfig: TRUE when it returns null
validateGitHubConfig(gh) ==
  /\ gh.token # ""
  /\ gh.token \in PrefixedTokens
  /\ gh.modelRepoUrl # <<>> => githubUrlPattern(gh.modelRepoUrl)

\* what the user can have typed into the settings dialog
DialogInputs ==
  { MkAppConfig(MkConfig(k, EndpointPath, "gpt"), "ghp_t", u) :
      k \in {"", "key"}, u \in ModelRepoUrls }

\* what localStorage can hold when the application starts
LocalStorageConfigs ==
  { MkAppConfig(MkConfig("key", EndpointPath, "gpt"), "ghp_t", u) : u \in ModelRepoUrls }

\* PrInputComponent.initializeServices(c): the values the services hold
\* afterwards, setModelRepoUrl being skipped for an empty URL
initializeServices(c, repoUrlNow) ==
  [config |-> StoredConfig(c.azureOpenAI),
   githubToken |-> c.github.token,
   modelRepoUrl |-> IF c.github.modelRepoUrl # <<>> THEN c.github.modelRepoUrl
                    ELSE repoUrlNow]

\* the application as constructed: loadConfig reads localStorage, the effect
\* of the component runs once on what was read
AppInit ==
  /\ RunsInit
  /\ configState \in {NoConfig} \cup LocalStorageConfigs
  /\ LET s == IF configState.present
                THEN initializeServices(configState, <<>>)
                ELSE [config |-> DefaultConfig, githubToken |-> "", modelRepoUrl |-> <<>>]
     IN /\ config = s.config
        /\ githubToken = s.githubToken
        /\ modelRepoUrl = s.modelRepoUrl
  /\ call = NoCall
  /\ ret = NoReturn

\* SettingsDialogComponent.save: validate, saveConfig, and the effect of the
\* component that follows the change of the config signal
save(c) ==
  /\ c # configState
  /\ validateAzureConfig(c.azureOpenAI)
  /\ validateGitHubConfig(c.github)
  /\ configState' = c
  /\ LET s == initializeServices(c, modelRepoUrl)
     IN /\ config' = s.config
        /\ githubToken' = s.githubToken
        /\ modelRepoUrl' = s.modelRepoUrl
  /\ UNCHANGED <<libVars, reviewContent, context, analysisResult, prData, status, stage, prUrl,
                 fetchPending, issued, writes, failure, result, aiResult, overlapped>>

\* SettingsDialogComponent.clearConfig: the config signal becomes null and
\* the effect does nothing
clearConfig ==
  /\ configState.present
  /\ configState' = NoConfig
  /\ UNCHANGED <<libVars, reviewContent, context, analysisResult, prData, status, githubToken,
                 modelRepoUrl, config, stage, prUrl, fetchPending, issued, writes, failure,
                 result, aiResult, overlapped>>

\* PrInputComponent.analyzePR on the URL typed in, the r-th analysis started:
\* the three early returns, then analyzePullRequest(url).subscribe(...)
PrInputAnalyzePR(r, url) ==
  /\ stage[r] = "idle"
  /\ \A q \in Runs : q < r => stage[q] # "idle"
  /\ isConfigured(configState)
  /\ url # UrlEmpty
  /\ isValidPRUrl(url)
  /\ LET e == CallStep(githubToken, url)
     IN IF e.stage = "coldError"
          THEN /\ Apply(r, [e EXCEPT !.stage = "rejected"])
               /\ UNCHANGED <<fetchPending, overlapped>>
          ELSE /\ Apply(r, [e EXCEPT !.stage = "fetch", !.calls = FetchKinds])
               /\ fetchPending' = [fetchPending EXCEPT ![r] = FetchKinds]
               /\ overlapped' = (overlapped \/ \E q \in Runs : InFlight(q))
  /\ prUrl' = [prUrl EXCEPT ![r] = IF githubToken # "" THEN url ELSE <<>>]
  /\ UNCHANGED <<libVars, reviewContent, context, configState, prData, githubToken,
                 modelRepoUrl, config>>

AppNext ==
  \/ \E c \in DialogInputs : save(c)
  \/ clearConfig
  \/ \E r \in Runs, u \in PRUrls : PrInputAnalyzePR(r, u)
  \/ \E r \in Runs, k \in FetchKinds : FetchOk(r, k)
  \/ \E r \in Runs, k \in FetchKinds, e \in GitHubFailures : FetchFail(r, k, e)
  \/ \E r \in Runs : ContextOk(r)
  \/ \E r \in Runs, e \in GitHubFailures : ContextFail(r, e)
  \/ \E r \in Runs, c \in AIContents : ReviewOk(r, c)
  \/ \E r \in Runs, e \in AIFailures : ReviewFail(r, e)
  \/ \E r \in Runs, c \in TestContents : TestsOk(r, c)
  \/ \E r \in Runs, e \in AIFailures : TestsFail(r, e)

SpecApp == AppInit /\ [][AppNext]_vars

\* C28 as stated: the load-context stage follows the model repository setting
\* of the configuration applied last: when that configuration has no model
\* repository URL, the stage takes the branch without a repository and sends
\* nothing.
C28_AsStated ==
  [][\A r \in Runs :
       (/\ EntersContext(r)
        /\ configState.present
        /\ configState.github.modelRepoUrl = <<>>) =>
         /\ ~Issues(r, "context")
         /\ context'[r] = EmptyContext]_vars

\* the analyses started so far
Started == {r \in Runs : stage[r] # "idle"}

\* C29 as stated: once several analyses have been started and all of them
\* have completed, the result the App holds is the result of the analysis
\* started last.
C29_AsStated ==
  (/\ Cardinality(Started) >= 2
   /\ overlapped
   /\ \A r \in Started : stage[r] = "completed") =>
    analysisResult = result[CHOOSE r \in Started : \A q \in Started : q <= r]

====
